---- MODULE Spec2Model ----
(***************************************************************************)
(* A model of revenue-rescue: the chat page (ChatPage), the chat panel     *)
(* (ChatInterface) and the two API routes (POST /api/chat and              *)
(* POST /api/generate-report).                                             *)
(*                                                                         *)
(* Texts (messages, model replies) are sequences of lexemes; each lexeme   *)
(* stands for a substring of the real text:                                *)
(*   "WS"  white space            "W"   a plain word                       *)
(*   "FENCE" a ``` code fence     "{" "}" "," "Q"(a double quote)          *)
(*   "SO"/"SC"  <script> / </script>      "IO"/"IC"  <iframe> / </iframe>  *)
(*   "JS"  javascript:            "ON"  on + word characters   "EQ"  =     *)
(*   "JA"  java      "SCR"  script:     (side by side they read javascript:) *)
(*   "K_<section>"  a JSON key with its colon, "K_other" some other key    *)
(*   "VAL" a truthy JSON value without markup, "NUL" the literal null      *)
(*   "BOLD" **    "STAR" *    "HASH" one to six # and the space after them *)
(***************************************************************************)
EXTENDS Integers, Sequences, FiniteSets, TLC

VARIABLES
  phase,                  \* ChatPage: "constructed" | "effects" | "ready"
  csvData,                \* ChatPage state csvData (Null or a descriptor)
  chatHistory,            \* ChatPage state chatHistory
  activeTab,              \* ChatPage state activeTab: "dashboard" | "chat"
  pageIsGeneratingReport, \* ChatPage state isGeneratingReport
  inputMessage,           \* ChatInterface state inputMessage
  isLoading,              \* ChatInterface state isLoading
  isGeneratingReport,     \* ChatInterface state isGeneratingReport
  localHistory,           \* localStorage["chat-csv-history"]
  localCsv,               \* localStorage["chat-csv-data"]
  queued,                 \* state updates queued by the mount effect
  requests,               \* the fetch calls of this page load, with their state
  now,                    \* the clock read by new Date()
  ops,                    \* user actions taken so far (bounds the model)
  sinceReset,             \* history: what was appended since the last clear or load
  apiPc,                  \* route handler position: "idle" | "fetching" | "done"
  apiEndpoint,            \* "chat" | "report"
  apiReq,                 \* the request body being handled
  apiPrompt,              \* what the handler sent to the model service
  apiReply,               \* the model service's answer
  apiResp,                \* the handler's response
  apiCalls                \* calls to the model service made for this request

clientVars == <<phase, csvData, chatHistory, activeTab, pageIsGeneratingReport,
                inputMessage, isLoading, isGeneratingReport, localHistory, localCsv,
                queued, requests, now, ops, sinceReset>>
apiVars == <<apiPc, apiEndpoint, apiReq, apiPrompt, apiReply, apiResp, apiCalls>>
vars == <<clientVars, apiVars>>

----------------------------------------------------------------------------
(* Bounds of the model *)

MaxOps == 3
MaxTicks == 1
TickMs == 700

----------------------------------------------------------------------------
(* Values *)

Null == [isNull |-> TRUE]

Sections == {"dataset_summary", "churn_analysis", "financial_projections",
             "demand_forecasting", "scenario_analysis", "recommendations"}

Datasets ==
  { [fileName |-> "sales.csv", rowCount |-> 1000,
     schema |-> <<"date", "revenue", "customer_id">>, sample |-> <<"r1", "r2">>],
    [fileName |-> "tiny.csv", rowCount |-> 1,
     schema |-> <<"sku">>, sample |-> <<"r1">>] }

Greeting == <<"GREETING">>
UploadAck(data) == <<"ACK", data.fileName>>
ChatErrorText == <<"CHAT_ERROR">>
PanelReportTitle == <<"REPORT_TITLE_PANEL">>
PanelReportNote == <<"REPORT_NOTE">>
PanelReportErrorText == <<"REPORT_ERROR_PANEL">>
PageReportTitle == <<"REPORT_TITLE_PAGE">>
PageReportErrorText == <<"REPORT_ERROR_PAGE">>

----------------------------------------------------------------------------
(* Text helpers *)

RECURSIVE TrimStart(_)
TrimStart(t) ==
  IF t # <<>> /\ Head(t) = "WS" THEN TrimStart(Tail(t)) ELSE t

RECURSIVE TrimEnd(_)
TrimEnd(t) ==
  IF t # <<>> /\ t[Len(t)] = "WS" THEN TrimEnd(SubSeq(t, 1, Len(t) - 1)) ELSE t

Trim(t) == TrimEnd(TrimStart(t))

----------------------------------------------------------------------------
(* sanitizeOutput: the denylist filter of both routes *)

IndexFrom(t, i, x) ==
  IF \E j \in i..Len(t) : t[j] = x
    THEN CHOOSE j \in i..Len(t) : t[j] = x /\ \A k \in i..(j - 1) : t[k] # x
    ELSE 0

\* .replace(/<tag\b[^<]*(?:(?!<\/tag>)<[^<]*)*<\/tag>/gi, ""): every stretch from
\* an opening tag to the first closing tag after it, found left to right.
RECURSIVE StripElement(_, _, _)
StripElement(t, open, close) ==
  IF t = <<>> THEN <<>>
  ELSE IF Head(t) = open /\ IndexFrom(t, 2, close) # 0
    THEN StripElement(SubSeq(t, IndexFrom(t, 2, close) + 1, Len(t)), open, close)
    ELSE <<Head(t)>> \o StripElement(Tail(t), open, close)

\* .replace(/javascript:/gi, ""): one scan from left to right; what a removal
\* brings side by side is not scanned again.
RECURSIVE StripJavascript(_)
StripJavascript(t) ==
  IF t = <<>> THEN <<>>
  ELSE IF Head(t) = "JS" THEN StripJavascript(Tail(t))
  ELSE IF Len(t) >= 2 /\ t[1] = "JA" /\ t[2] = "SCR"
    THEN StripJavascript(SubSeq(t, 3, Len(t)))
  ELSE <<Head(t)>> \o StripJavascript(Tail(t))

WordLexemes == {"W", "ON", "JA"}

RECURSIVE SkipWhile(_, _, _)
SkipWhile(t, i, set) ==
  IF i <= Len(t) /\ t[i] \in set THEN SkipWhile(t, i + 1, set) ELSE i

\* The length of the match of /on\w+\s*=/ at the head of t, 0 when there is none.
HandlerMatchLen(t) ==
  IF t = <<>> \/ Head(t) # "ON" THEN 0
  ELSE LET afterWord == SkipWhile(t, 2, WordLexemes)
           afterSpace == SkipWhile(t, afterWord, {"WS"})
       IN IF afterSpace <= Len(t) /\ t[afterSpace] = "EQ" THEN afterSpace ELSE 0

\* .replace(/on\w+\s*=/gi, "")
RECURSIVE StripHandlers(_)
StripHandlers(t) ==
  IF t = <<>> THEN <<>>
  ELSE IF HandlerMatchLen(t) # 0
    THEN StripHandlers(SubSeq(t, HandlerMatchLen(t) + 1, Len(t)))
    ELSE <<Head(t)>> \o StripHandlers(Tail(t))

\* A variant of sanitizeOutput that trims before the replacements, not after.
sanitizeOutput_TrimFirst(text) ==
  StripHandlers(StripJavascript(
    StripElement(StripElement(Trim(text), "SO", "SC"), "IO", "IC")))

sanitizeOutput(text) ==
  Trim(StripHandlers(StripJavascript(
         StripElement(StripElement(text, "SO", "SC"), "IO", "IC"))))

----------------------------------------------------------------------------
(* generate-report: JSON extraction, JSON.parse, validation, fallback *)

LastIndex(t, x) ==
  IF \E j \in 1..Len(t) : t[j] = x
    THEN CHOOSE j \in 1..Len(t) : t[j] = x /\ \A k \in (j + 1)..Len(t) : t[k] # x
    ELSE 0

NoMatch == [found |-> FALSE, text |-> <<>>]

\* A variant of JsonMatch with the pattern anchored (/^\{[\s\S]*\}$/): the whole
\* text has to be the object.
JsonMatch_Anchored(t) ==
  IF t # <<>> /\ Head(t) = "{" /\ t[Len(t)] = "}" /\ Len(t) > 1
    THEN [found |-> TRUE, text |-> t]
    ELSE NoMatch

\* rawText.match(/\{[\s\S]*\}/): from the first "{" to the last "}".
JsonMatch(t) ==
  LET first == IndexFrom(t, 1, "{")
      last == LastIndex(t, "}")
  IN IF first # 0 /\ last > first
       THEN [found |-> TRUE, text |-> SubSeq(t, first, last)]
       ELSE NoMatch

KeyOf(lexeme) ==
  IF \E s \in Sections : lexeme = "K_" \o s
    THEN CHOOSE s \in Sections : lexeme = "K_" \o s
    ELSE IF lexeme = "K_other" THEN "other" ELSE ""

JsonValue(kind, content) == [kind |-> kind, content |-> content]

ParseFailed == [ok |-> FALSE, obj |-> <<>>]

\* A JSON value starting at t[i]: [ok, val, next].
ParseValue(t, i) ==
  IF i > Len(t) THEN [ok |-> FALSE, val |-> JsonValue("NUL", <<>>), next |-> i]
  ELSE IF t[i] = "VAL"
    THEN [ok |-> TRUE, val |-> JsonValue("VAL", <<>>), next |-> i + 1]
  ELSE IF t[i] = "NUL"
    THEN [ok |-> TRUE, val |-> JsonValue("NUL", <<>>), next |-> i + 1]
  ELSE IF t[i] = "Q" /\ IndexFrom(t, i + 1, "Q") # 0
    THEN LET close == IndexFrom(t, i + 1, "Q")
         IN [ok |-> TRUE, val |-> JsonValue("STR", SubSeq(t, i + 1, close - 1)),
             next |-> close + 1]
  ELSE [ok |-> FALSE, val |-> JsonValue("NUL", <<>>), next |-> i]

\* The members of an object from t[i] on. expect: "first" (a member or "}"),
\* "member" (a member, after a comma), "sep" (a comma or "}").
RECURSIVE ParseMembers(_, _, _, _)
ParseMembers(t, i0, obj, expect) ==
  LET i == SkipWhile(t, i0, {"WS"})
  IN IF i > Len(t) THEN ParseFailed
     ELSE IF t[i] = "}" /\ expect \in {"first", "sep"}
       THEN IF SkipWhile(t, i + 1, {"WS"}) > Len(t)
              THEN [ok |-> TRUE, obj |-> obj]
              ELSE ParseFailed
     ELSE IF t[i] = "," /\ expect = "sep"
       THEN ParseMembers(t, i + 1, obj, "member")
     ELSE IF KeyOf(t[i]) # "" /\ expect \in {"first", "member"}
       THEN LET v == ParseValue(t, SkipWhile(t, i + 1, {"WS"}))
            IN IF v.ok
                 THEN ParseMembers(t, v.next,
                        [k \in DOMAIN obj \cup {KeyOf(t[i])} |->
                           IF k = KeyOf(t[i]) THEN v.val ELSE obj[k]], "sep")
                 ELSE ParseFailed
     ELSE ParseFailed

\* JSON.parse of a text that starts with "{".
JsonParse(t) ==
  IF t # <<>> /\ Head(t) = "{" THEN ParseMembers(t, 2, <<>>, "first") ELSE ParseFailed

Truthy(v) == v.kind = "VAL" \/ (v.kind = "STR" /\ v.content # <<>>)

\* A variant of HasRequiredSections with the test of recommendations left out.
HasRequiredSections_FiveTests(report) ==
  /\ "dataset_summary" \in DOMAIN report /\ Truthy(report["dataset_summary"])
  /\ "churn_analysis" \in DOMAIN report /\ Truthy(report["churn_analysis"])
  /\ "financial_projections" \in DOMAIN report /\ Truthy(report["financial_projections"])
  /\ "demand_forecasting" \in DOMAIN report /\ Truthy(report["demand_forecasting"])
  /\ "scenario_analysis" \in DOMAIN report /\ Truthy(report["scenario_analysis"])

\* The negation of the six !report.<section> tests.
HasRequiredSections(report) ==
  /\ "dataset_summary" \in DOMAIN report /\ Truthy(report["dataset_summary"])
  /\ "churn_analysis" \in DOMAIN report /\ Truthy(report["churn_analysis"])
  /\ "financial_projections" \in DOMAIN report /\ Truthy(report["financial_projections"])
  /\ "demand_forecasting" \in DOMAIN report /\ Truthy(report["demand_forecasting"])
  /\ "scenario_analysis" \in DOMAIN report /\ Truthy(report["scenario_analysis"])
  /\ "recommendations" \in DOMAIN report /\ Truthy(report["recommendations"])

fallbackReport(data) ==
  [s \in Sections |->
     IF s = "dataset_summary"
       THEN JsonValue("FALLBACK", <<ToString(data.rowCount), ToString(Len(data.schema))>>)
       ELSE JsonValue("FALLBACK", <<s>>)]

----------------------------------------------------------------------------
(* Both routes: the dataset context of the prompt *)

BadDescriptor == [fileName |-> "broken.csv"]

\* csvData.schema.length and csvData.sample.map throw on a descriptor without them.
ContextThrows(data) == data # Null /\ ~({"schema", "sample"} \subseteq DOMAIN data)

NoDataContext == [kind |-> "none"]

\* A variant of csvContext whose scope line gives the sample size as the total.
csvContext_SampleAsTotal(data) ==
  [kind |-> "dataset", fileName |-> data.fileName, totalRecords |-> data.rowCount,
   fieldCount |-> Len(data.schema), fields |-> data.schema,
   records |-> data.sample,
   scope |-> [sampled |-> Len(data.sample), total |-> Len(data.sample)]]

csvContext(data) ==
  [kind |-> "dataset", fileName |-> data.fileName, totalRecords |-> data.rowCount,
   fieldCount |-> Len(data.schema), fields |-> data.schema,
   records |-> data.sample,
   scope |-> [sampled |-> Len(data.sample), total |-> data.rowCount]]

----------------------------------------------------------------------------
(* POST /api/chat *)

HistoryLimit == 10

SliceLast(h, n) == IF Len(h) <= n THEN h ELSE SubSeq(h, Len(h) - n + 1, Len(h))

RECURSIVE FilterEligible(_)
FilterEligible(h) ==
  IF h = <<>> THEN <<>>
  ELSE IF Head(h).type \in {"user", "bot"}
    THEN <<Head(h)>> \o FilterEligible(Tail(h))
    ELSE FilterEligible(Tail(h))

\* chatHistory.slice(-10).filter(type is user or bot)
recentHistory(history) == FilterEligible(SliceLast(history, HistoryLimit))

HistoryLine(msg) ==
  [label |-> IF msg.type = "user" THEN "User" ELSE "Assistant", text |-> msg.message]

historyContext(history) ==
  LET recent == recentHistory(history)
  IN [i \in 1..Len(recent) |-> HistoryLine(recent[i])]

\* A variant of ChatPrompt that writes the dataset block, with nothing in it,
\* when there is no dataset.
ChatPrompt_NoSentinel(body) ==
  [sent |-> TRUE,
   context |-> IF body.csvData # Null THEN csvContext(body.csvData)
               ELSE [kind |-> "dataset", fileName |-> "", totalRecords |-> 0,
                     fieldCount |-> 0, fields |-> <<>>, records |-> <<>>,
                     scope |-> [sampled |-> 0, total |-> 0]],
   history |-> historyContext(body.chatHistory),
   question |-> body.message]

ChatPrompt(body) ==
  [sent |-> TRUE,
   context |-> IF body.csvData # Null THEN csvContext(body.csvData) ELSE NoDataContext,
   history |-> historyContext(body.chatHistory),
   question |-> body.message]

ErrorResponse(status, text) == [status |-> status, error |-> text]

\* A variant of ChatUpstreamError that hands the status of the model service on.
ChatUpstreamError_PassStatus(status) ==
  IF status = 429 THEN ErrorResponse(429, "AI service quota exceeded. Please try again later.")
  ELSE IF status = 401 \/ status = 403
    THEN ErrorResponse(status, "AI service configuration error. Please check API key.")
  ELSE ErrorResponse(status, "Failed to get response from AI service.")

\* A variant of ChatUpstreamError that tests 401 alone for the configuration error.
ChatUpstreamError_Only401(status) ==
  IF status = 429 THEN ErrorResponse(429, "AI service quota exceeded. Please try again later.")
  ELSE IF status = 401
    THEN ErrorResponse(500, "AI service configuration error. Please check API key.")
  ELSE ErrorResponse(500, "Failed to get response from AI service.")

\* The !response.ok branch of the chat route.
ChatUpstreamError(status) ==
  IF status = 429 THEN ErrorResponse(429, "AI service quota exceeded. Please try again later.")
  ELSE IF status = 401 \/ status = 403
    THEN ErrorResponse(500, "AI service configuration error. Please check API key.")
  ELSE ErrorResponse(500, "Failed to get response from AI service.")

ChatCatch(fromFetch) ==
  IF fromFetch
    THEN ErrorResponse(500, "Network error. Please check your connection and try again.")
    ELSE ErrorResponse(500, "Failed to process your request. Please try again.")

NoResponseSentinel == <<"SORRY_NO_RESPONSE">>

\* A variant of ChatSuccess with ?? for ||: an empty text is kept.
ChatSuccess_Nullish(reply) ==
  [status |-> 200,
   response |-> sanitizeOutput(IF reply.hasText THEN reply.text ELSE NoResponseSentinel)]

ChatSuccess(reply) ==
  [status |-> 200,
   response |-> sanitizeOutput(IF reply.hasText /\ reply.text # <<>>
                                 THEN reply.text ELSE NoResponseSentinel)]

\* A variant of ChatBeforeFetch that tests !message, without the trim.
ChatBeforeFetch_NoTrim(body) ==
  IF body.kind = "unparseable" THEN ChatCatch(FALSE)
  ELSE IF ~body.hasMessage \/ body.message = <<>>
    THEN ErrorResponse(400, "Message is required")
  ELSE IF ContextThrows(body.csvData) \/ ~body.hasHistory THEN ChatCatch(FALSE)
  ELSE [status |-> 0]

\* The route up to its fetch: the response it returns at once, or "fetch".
ChatBeforeFetch(body) ==
  IF body.kind = "unparseable" THEN ChatCatch(FALSE)
  ELSE IF ~body.hasMessage \/ Trim(body.message) = <<>>
    THEN ErrorResponse(400, "Message is required")
  ELSE IF ContextThrows(body.csvData) \/ ~body.hasHistory THEN ChatCatch(FALSE)
  ELSE [status |-> 0]

\* The route after its fetch settled.
ChatAfterFetch(reply) ==
  IF reply.kind = "throw" THEN ChatCatch(TRUE)
  ELSE IF reply.kind = "status" THEN ChatUpstreamError(reply.status)
  ELSE IF reply.kind = "badbody" THEN ChatCatch(FALSE)
  ELSE ChatSuccess(reply)

----------------------------------------------------------------------------
(* POST /api/generate-report *)

ReportPrompt(body) ==
  [sent |-> TRUE, context |-> csvContext(body.csvData), history |-> <<>>,
   question |-> <<>>]

ReportGenericError == ErrorResponse(500, "Failed to generate business report")

\* The !response.ok branch of the report route.
ReportUpstreamError(status) == ReportGenericError

\* A variant of ReportBeforeFetch without the test of csvData.
ReportBeforeFetch_NoTest(body) ==
  IF body.kind = "unparseable" THEN ReportGenericError
  ELSE IF "csvData" \notin DOMAIN body \/ body.csvData = Null THEN ReportGenericError
  ELSE IF ContextThrows(body.csvData) THEN ReportGenericError
  ELSE [status |-> 0]

ReportBeforeFetch(body) ==
  IF body.kind = "unparseable" THEN ReportGenericError
  ELSE IF "csvData" \notin DOMAIN body \/ body.csvData = Null
    THEN ErrorResponse(400, "CSV data is required for report generation")
  ELSE IF ContextThrows(body.csvData) THEN ReportGenericError
  ELSE [status |-> 0]

\* From rawText on: sanitize, extract, parse, validate, fall back.
ReportFromText(rawText, data) ==
  LET clean == sanitizeOutput(rawText)
      jsonMatch == JsonMatch(clean)
      parsed == JsonParse(jsonMatch.text)
  IN IF ~jsonMatch.found
       THEN ErrorResponse(500, "Invalid response format from AI service")
     ELSE IF parsed.ok /\ HasRequiredSections(parsed.obj)
       THEN [status |-> 200, report |-> parsed.obj]
     ELSE [status |-> 200, report |-> fallbackReport(data)]

ReportAfterFetch(reply, data) ==
  IF reply.kind = "throw" THEN ReportGenericError
  ELSE IF reply.kind = "status" THEN ReportUpstreamError(reply.status)
  ELSE IF reply.kind = "badbody" THEN ReportGenericError
  ELSE ReportFromText(IF reply.hasText THEN reply.text ELSE <<>>, data)

----------------------------------------------------------------------------
(* ChatInterface: sanitizeMessage *)

\* .replace(/\*\*(.*?)\*\*/g, "$1") and .replace(/\*(.*?)\*/g, "$1"): each mark
\* that has a later partner is dropped together with that partner.
RECURSIVE StripPairs(_, _)
StripPairs(t, mark) ==
  IF t = <<>> THEN <<>>
  ELSE IF Head(t) = mark /\ IndexFrom(t, 2, mark) # 0
    THEN LET close == IndexFrom(t, 2, mark)
         IN SubSeq(t, 2, close - 1) \o StripPairs(SubSeq(t, close + 1, Len(t)), mark)
    ELSE <<Head(t)>> \o StripPairs(Tail(t), mark)

\* What is left of "**" is two "*" to the italic pattern.
RECURSIVE BoldAsStars(_)
BoldAsStars(t) ==
  IF t = <<>> THEN <<>>
  ELSE (IF Head(t) = "BOLD" THEN <<"STAR", "STAR">> ELSE <<Head(t)>>)
         \o BoldAsStars(Tail(t))

\* .replace(/#{1,6}\s/g, "")
RECURSIVE StripHeadings(_)
StripHeadings(t) ==
  IF t = <<>> THEN <<>>
  ELSE IF Head(t) = "HASH" THEN StripHeadings(Tail(t))
  ELSE <<Head(t)>> \o StripHeadings(Tail(t))

sanitizeMessage(message) ==
  Trim(StripHeadings(StripPairs(BoldAsStars(StripPairs(
    StripHandlers(StripJavascript(
      StripElement(StripElement(message, "SO", "SC"), "IO", "IC"))),
    "BOLD")), "STAR")))

----------------------------------------------------------------------------
(* Persistence: JSON.stringify / JSON.parse of the conversation *)

\* A variant of ToISOString that writes whole seconds only.
ToISOString_Seconds(ms) == [sec |-> ms \div 1000, msec |-> 0]

ToISOString(ms) == [sec |-> ms \div 1000, msec |-> ms % 1000]

NewDate(iso) == iso.sec * 1000 + iso.msec

StringifyMessage(m) == [m EXCEPT !.timestamp = ToISOString(m.timestamp)]

StringifyHistory(h) == [i \in 1..Len(h) |-> StringifyMessage(h[i])]

ParseMessage(j) == [j EXCEPT !.timestamp = NewDate(j.timestamp)]

ParseHistory(s) == [i \in 1..Len(s) |-> ParseMessage(s[i])]

Absent == [present |-> FALSE]
Stored(v) == [present |-> TRUE, value |-> v]

PersistHistory(h) == Stored(StringifyHistory(h))

PersistCsv(data, old) == IF data # Null THEN Stored(data) ELSE old

----------------------------------------------------------------------------
(* ChatPage *)

BotMessage(text, t) == [type |-> "bot", message |-> text, timestamp |-> t]
UserMessage(text, t) == [type |-> "user", message |-> text, timestamp |-> t]
ReportMessage(text, t, report) ==
  [type |-> "report", message |-> text, timestamp |-> t, report |-> report]

InitialHistory(t) == <<BotMessage(Greeting, t)>>

\* A variant of ClearedHistory that adds the greeting to what is there.
ClearedHistory_Appends(h, t) == Append(h, BotMessage(Greeting, t))

ClearedHistory(h, t) == <<BotMessage(Greeting, t)>>

NoQueue == [history |-> Absent, csv |-> Absent]

\* The history variable sinceReset: the user messages and the chat replies
\* appended since the conversation was last replaced (by clear or by the load),
\* and the chat calls that were in flight when it was replaced.
NoneSince == [user |-> 0, chatBot |-> 0, carried |-> 0]

ClearedSince ==
  [user |-> 0, chatBot |-> 0,
   carried |-> Cardinality({i \in 1..Len(requests) :
                 requests[i].intent = "chat" /\ requests[i].status = "sending"})]

\* The load effect: what it reads from localStorage and hands to the setters.
LoadEffect(storedHistory, storedCsv) ==
  [history |-> IF storedHistory.present
                 THEN Stored(ParseHistory(storedHistory.value)) ELSE Absent,
   csv |-> storedCsv]

\* A variant of MountEffects in which the persist effects run before the load
\* effect, which then reads what they wrote.
MountEffects_PersistFirst ==
  /\ phase = "constructed"
  /\ localHistory' = PersistHistory(chatHistory)
  /\ localCsv' = PersistCsv(csvData, localCsv)
  /\ queued' = LoadEffect(localHistory', localCsv')
  /\ phase' = "effects"
  /\ UNCHANGED <<csvData, chatHistory, activeTab, pageIsGeneratingReport, inputMessage,
                 isLoading, isGeneratingReport, requests, now, ops, sinceReset,
                 apiVars>>

\* The effects of the first render: load, then the two persist effects, which
\* write the state of that render (the greeting, no dataset).
MountEffects ==
  /\ phase = "constructed"
  /\ queued' = LoadEffect(localHistory, localCsv)
  /\ localHistory' = PersistHistory(chatHistory)
  /\ localCsv' = PersistCsv(csvData, localCsv)
  /\ phase' = "effects"
  /\ UNCHANGED <<csvData, chatHistory, activeTab, pageIsGeneratingReport, inputMessage,
                 isLoading, isGeneratingReport, requests, now, ops, sinceReset,
                 apiVars>>

\* The render that applies the loaded state, and the persist effects after it.
MountRender ==
  /\ phase = "effects"
  /\ chatHistory' = IF queued.history.present THEN queued.history.value ELSE chatHistory
  /\ csvData' = IF queued.csv.present THEN queued.csv.value ELSE csvData
  /\ localHistory' = PersistHistory(chatHistory')
  /\ localCsv' = PersistCsv(csvData', localCsv)
  /\ queued' = NoQueue
  /\ phase' = "ready"
  /\ sinceReset' = NoneSince
  /\ UNCHANGED <<activeTab, pageIsGeneratingReport, inputMessage, isLoading,
                 isGeneratingReport, requests, now, ops, apiVars>>

\* The page is loaded again: every state of the components starts over, the
\* callbacks of the calls in flight are gone, localStorage stays.
Reload ==
  /\ ops < MaxOps
  /\ ops' = ops + 1
  /\ phase' = "constructed"
  /\ csvData' = Null
  /\ chatHistory' = InitialHistory(now)
  /\ activeTab' = "dashboard"
  /\ pageIsGeneratingReport' = FALSE
  /\ inputMessage' = <<>>
  /\ isLoading' = FALSE
  /\ isGeneratingReport' = FALSE
  /\ queued' = NoQueue
  /\ requests' = <<>>
  /\ sinceReset' = NoneSince
  /\ UNCHANGED <<localHistory, localCsv, now, apiVars>>

Tick ==
  /\ now < MaxTicks * TickMs
  /\ now' = now + TickMs
  /\ UNCHANGED <<phase, csvData, chatHistory, activeTab, pageIsGeneratingReport,
                 inputMessage, isLoading, isGeneratingReport, localHistory, localCsv,
                 queued, requests, ops, sinceReset,
                 apiVars>>

\* A variant of handleFileUpload that starts the conversation over with the upload.
handleFileUpload_Restarts(data) ==
  /\ phase = "ready"
  /\ ops < MaxOps
  /\ ops' = ops + 1
  /\ csvData' = data
  /\ chatHistory' = <<BotMessage(Greeting, now), BotMessage(UploadAck(data), now)>>
  /\ activeTab' = "chat"
  /\ localHistory' = PersistHistory(chatHistory')
  /\ localCsv' = PersistCsv(csvData', localCsv)
  /\ UNCHANGED <<phase, pageIsGeneratingReport, inputMessage, isLoading,
                 isGeneratingReport, queued, requests, now, sinceReset,
                 apiVars>>

\* A variant of handleFileUpload that puts its message first ([message, ...prev]).
handleFileUpload_Prepends(data) ==
  /\ phase = "ready"
  /\ ops < MaxOps
  /\ ops' = ops + 1
  /\ csvData' = data
  /\ chatHistory' = <<BotMessage(UploadAck(data), now)>> \o chatHistory
  /\ activeTab' = "chat"
  /\ localHistory' = PersistHistory(chatHistory')
  /\ localCsv' = PersistCsv(csvData', localCsv)
  /\ UNCHANGED <<phase, pageIsGeneratingReport, inputMessage, isLoading,
                 isGeneratingReport, queued, requests, now, sinceReset,
                 apiVars>>

handleFileUpload(data) ==
  /\ phase = "ready"
  /\ ops < MaxOps
  /\ ops' = ops + 1
  /\ csvData' = data
  /\ chatHistory' = Append(chatHistory, BotMessage(UploadAck(data), now))
  /\ activeTab' = "chat"
  /\ localHistory' = PersistHistory(chatHistory')
  /\ localCsv' = PersistCsv(csvData', localCsv)
  /\ UNCHANGED <<phase, pageIsGeneratingReport, inputMessage, isLoading,
                 isGeneratingReport, queued, requests, now, sinceReset,
                 apiVars>>

\* A variant of handleClearChat that aborts the calls in flight.
handleClearChat_Aborts ==
  /\ phase = "ready"
  /\ Len(chatHistory) > 1
  /\ ops < MaxOps
  /\ ops' = ops + 1
  /\ chatHistory' = ClearedHistory(chatHistory, now)
  /\ localHistory' = PersistHistory(chatHistory')
  /\ requests' = [i \in 1..Len(requests) |->
                    IF requests[i].status = "sending"
                      THEN [requests[i] EXCEPT !.status = "failed"] ELSE requests[i]]
  /\ isLoading' = FALSE
  /\ isGeneratingReport' = FALSE
  /\ pageIsGeneratingReport' = FALSE
  /\ sinceReset' = ClearedSince
  /\ UNCHANGED <<phase, csvData, activeTab, inputMessage, localCsv, queued, now,
                 apiVars>>

\* A variant of handleClearChat that forgets the dataset as well.
handleClearChat_DropsDataset ==
  /\ phase = "ready"
  /\ Len(chatHistory) > 1
  /\ ops < MaxOps
  /\ ops' = ops + 1
  /\ chatHistory' = ClearedHistory(chatHistory, now)
  /\ localHistory' = PersistHistory(chatHistory')
  /\ csvData' = Null
  /\ localCsv' = Absent
  /\ sinceReset' = ClearedSince
  /\ UNCHANGED <<phase, activeTab, pageIsGeneratingReport, inputMessage,
                 isLoading, isGeneratingReport, queued, requests, now, apiVars>>

\* A variant of handleClearChat whose removeItem is the last word: the persist
\* effect does not write the greeting afterwards.
handleClearChat_RemovesOnly ==
  /\ phase = "ready"
  /\ Len(chatHistory) > 1
  /\ ops < MaxOps
  /\ ops' = ops + 1
  /\ chatHistory' = ClearedHistory(chatHistory, now)
  /\ localHistory' = Absent
  /\ sinceReset' = ClearedSince
  /\ UNCHANGED <<phase, csvData, activeTab, pageIsGeneratingReport, inputMessage,
                 isLoading, isGeneratingReport, localCsv, queued, requests, now,
                 apiVars>>

\* The Clear button is rendered while chatHistory.length > 1.
handleClearChat ==
  /\ phase = "ready"
  /\ Len(chatHistory) > 1
  /\ ops < MaxOps
  /\ ops' = ops + 1
  /\ chatHistory' = ClearedHistory(chatHistory, now)
  /\ localHistory' = PersistHistory(chatHistory')
  /\ sinceReset' = ClearedSince
  /\ UNCHANGED <<phase, csvData, activeTab, pageIsGeneratingReport, inputMessage,
                 isLoading, isGeneratingReport, localCsv, queued, requests, now,
                 apiVars>>

\* The calls that the panel now unmounted started: their setIsLoading and
\* setIsGeneratingReport no longer reach a mounted component.
Orphaned(reqs) ==
  [i \in 1..Len(reqs) |->
     IF reqs[i].origin = "panel" THEN [reqs[i] EXCEPT !.live = FALSE] ELSE reqs[i]]

\* onValueChange of the Tabs. The ChatInterface is the content of the "chat"
\* tab: it is mounted, with the initial values of its state, when that tab is
\* selected, and unmounted when the other tab is. Leaving the chat tab counts
\* as a user action in ops; coming back to it does not.
setActiveTab(tab) ==
  /\ phase = "ready"
  /\ tab # activeTab
  /\ tab = "dashboard" => ops < MaxOps
  /\ ops' = IF tab = "dashboard" THEN ops + 1 ELSE ops
  /\ activeTab' = tab
  /\ inputMessage' = <<>>
  /\ isLoading' = FALSE
  /\ isGeneratingReport' = FALSE
  /\ requests' = Orphaned(requests)
  /\ UNCHANGED <<phase, csvData, chatHistory, pageIsGeneratingReport, localHistory,
                 localCsv, queued, now, sinceReset,
                 apiVars>>

----------------------------------------------------------------------------
(* ChatInterface *)

\* The panel is rendered while its tab is the selected one.
PanelMounted == activeTab = "chat"

InputTexts == {<<>>, <<"WS", "W", "WS">>}

\* A variant of InputDisabled without the test of csvData.
InputDisabled_NoDatasetTest == isLoading \/ isGeneratingReport

\* disabled of the Input
InputDisabled == csvData = Null \/ isLoading \/ isGeneratingReport

\* A variant of SendButtonDisabled that leaves the report flag out.
SendButtonDisabled_NoReportFlag ==
  Trim(inputMessage) = <<>> \/ csvData = Null \/ isLoading

\* disabled of the send Button
SendButtonDisabled ==
  Trim(inputMessage) = <<>> \/ csvData = Null \/ isLoading \/ isGeneratingReport

\* The user can reach handleSendMessage by the button or by Enter in the input.
SendReachable == ~SendButtonDisabled \/ ~InputDisabled

\* The early return of handleSendMessage.
SendGuard == ~(Trim(inputMessage) = <<>> \/ isLoading)

\* disabled of the panel's Generate Business Report button, shown with a dataset
PanelReportButtonEnabled == csvData # Null /\ ~isGeneratingReport

\* The early return of the panel's handleGenerateReport.
PanelReportGuard == ~(csvData = Null \/ isGeneratingReport)

\* disabled of the sidebar's Generate Report button, shown with a dataset
PageReportButtonEnabled == csvData # Null /\ ~pageIsGeneratingReport

\* The early return of the page's handleGenerateReport.
PageReportGuard == ~(csvData = Null)

Request(intent, origin, body) ==
  [intent |-> intent, origin |-> origin, status |-> "sending", live |-> TRUE,
   body |-> body]

Outstanding(intent) ==
  {i \in 1..Len(requests) : requests[i].intent = intent /\ requests[i].status = "sending"}

OutstandingFrom(intent, origin) ==
  {i \in Outstanding(intent) : requests[i].origin = origin}

setInputMessage(text) ==
  /\ phase = "ready"
  /\ PanelMounted
  /\ ~InputDisabled
  /\ inputMessage # text
  /\ inputMessage' = text
  /\ UNCHANGED <<phase, csvData, chatHistory, activeTab, pageIsGeneratingReport,
                 isLoading, isGeneratingReport, localHistory, localCsv, queued,
                 requests, now, ops, sinceReset,
                 apiVars>>

\* A variant of handleSendMessage that sends the conversation with the new
\* user message already in it.
handleSendMessage_SendsNewHistory ==
  /\ phase = "ready"
  /\ PanelMounted
  /\ SendReachable
  /\ SendGuard
  /\ ops < MaxOps
  /\ ops' = ops + 1
  /\ chatHistory' = Append(chatHistory, UserMessage(Trim(inputMessage), now))
  /\ inputMessage' = <<>>
  /\ isLoading' = TRUE
  /\ requests' = Append(requests,
       Request("chat", "panel",
               [message |-> Trim(inputMessage), csvData |-> csvData,
                chatHistory |-> chatHistory']))
  /\ localHistory' = PersistHistory(chatHistory')
  /\ sinceReset' = [sinceReset EXCEPT !.user = @ + 1]
  /\ UNCHANGED <<phase, csvData, activeTab, pageIsGeneratingReport, isGeneratingReport,
                 localCsv, queued, now, apiVars>>

\* handleSendMessage up to its fetch.
handleSendMessage ==
  /\ phase = "ready"
  /\ PanelMounted
  /\ SendReachable
  /\ SendGuard
  /\ ops < MaxOps
  /\ ops' = ops + 1
  /\ chatHistory' = Append(chatHistory, UserMessage(Trim(inputMessage), now))
  /\ inputMessage' = <<>>
  /\ isLoading' = TRUE
  /\ requests' = Append(requests,
       Request("chat", "panel",
               [message |-> Trim(inputMessage), csvData |-> csvData,
                chatHistory |-> chatHistory]))
  /\ localHistory' = PersistHistory(chatHistory')
  /\ sinceReset' = [sinceReset EXCEPT !.user = @ + 1]
  /\ UNCHANGED <<phase, csvData, activeTab, pageIsGeneratingReport, isGeneratingReport,
                 localCsv, queued, now, apiVars>>

ChatReplies == {<<"BOLD", "W", "BOLD", "WS", "W">>}

ChatResponses ==
  {[kind |-> "throw"]}
    \cup {[kind |-> "http", response |-> ChatUpstreamError(st)] : st \in {429, 401, 500}}
    \cup {[kind |-> "http", response |-> [status |-> 200, response |-> r]] : r \in ChatReplies}

Failed(outcome) == outcome.kind = "throw" \/ outcome.response.status # 200

Settle(i, outcome) ==
  [requests EXCEPT ![i].status = IF Failed(outcome) THEN "failed" ELSE "succeeded"]

\* A variant of ChatSettledMessages whose catch appends nothing.
ChatSettledMessages_SilentCatch(outcome, t) ==
  IF Failed(outcome)
    THEN <<>>
    ELSE <<BotMessage(sanitizeMessage(outcome.response.response), t)>>

\* A variant of ChatSettledMessages whose catch appends the error's own text
\* as well as the apology.
ChatSettledMessages_ErrorAndApology(outcome, t) ==
  IF Failed(outcome)
    THEN <<BotMessage(<<"ERROR_TEXT">>, t), BotMessage(ChatErrorText, t)>>
    ELSE <<BotMessage(sanitizeMessage(outcome.response.response), t)>>

\* What handleSendMessage appends once its fetch has settled.
ChatSettledMessages(outcome, t) ==
  IF Failed(outcome)
    THEN <<BotMessage(ChatErrorText, t)>>
    ELSE <<BotMessage(sanitizeMessage(outcome.response.response), t)>>

\* handleSendMessage from its fetch settling to the end of finally.
ChatSettled(i, outcome) ==
  /\ phase = "ready"
  /\ i \in Outstanding("chat")
  /\ requests' = Settle(i, outcome)
  /\ chatHistory' = chatHistory \o ChatSettledMessages(outcome, now)
  /\ isLoading' = IF requests[i].live THEN FALSE ELSE isLoading
  /\ localHistory' = PersistHistory(chatHistory')
  /\ sinceReset' = [sinceReset EXCEPT
                      !.chatBot = @ + Len(ChatSettledMessages(outcome, now))]
  /\ UNCHANGED <<phase, csvData, activeTab, pageIsGeneratingReport, inputMessage,
                 isGeneratingReport, localCsv, queued, now, ops, apiVars>>

\* The panel's handleGenerateReport up to its fetch.
PanelGenerateReport ==
  /\ phase = "ready"
  /\ PanelMounted
  /\ PanelReportButtonEnabled
  /\ PanelReportGuard
  /\ ops < MaxOps
  /\ ops' = ops + 1
  /\ isGeneratingReport' = TRUE
  /\ requests' = Append(requests, Request("report", "panel", [csvData |-> csvData]))
  /\ UNCHANGED <<phase, csvData, chatHistory, activeTab, pageIsGeneratingReport,
                 inputMessage, isLoading, localHistory, localCsv, queued, now, sinceReset,
                 apiVars>>

\* The page's handleGenerateReport up to its fetch.
PageGenerateReport ==
  /\ phase = "ready"
  /\ PageReportButtonEnabled
  /\ PageReportGuard
  /\ ops < MaxOps
  /\ ops' = ops + 1
  /\ pageIsGeneratingReport' = TRUE
  /\ requests' = Append(requests, Request("report", "page", [csvData |-> csvData]))
  /\ UNCHANGED <<phase, csvData, chatHistory, activeTab, isGeneratingReport,
                 inputMessage, isLoading, localHistory, localCsv, queued, now, sinceReset,
                 apiVars>>

CompleteReport == [s \in Sections |-> JsonValue("VAL", <<>>)]

ReportResponses(data) ==
  {[kind |-> "throw"],
   [kind |-> "http", response |-> ReportGenericError],
   [kind |-> "http", response |-> [status |-> 200, report |-> CompleteReport]],
   [kind |-> "http", response |-> [status |-> 200, report |-> fallbackReport(data)]]}

\* The sections whose title and content the BusinessReport view reads.
ViewSections == {"summary", "churnAnalysis", "financialProjections",
                 "demandForecasting", "scenarioAnalysis", "recommendations"}

\* report.<section>.title of a section that is not there throws in the render.
ViewThrows(report) == \E s \in ViewSections : s \notin DOMAIN report

PanelReportSettledMessages(outcome, t) ==
  IF Failed(outcome)
    THEN <<BotMessage(PanelReportErrorText, t)>>
    ELSE <<ReportMessage(PanelReportTitle, t, outcome.response.report),
           BotMessage(PanelReportNote, t)>>

PageReportSettledMessages(outcome, t) ==
  IF Failed(outcome)
    THEN <<BotMessage(PageReportErrorText, t)>>
    ELSE <<ReportMessage(PageReportTitle, t, outcome.response.report)>>

\* The panel's handleGenerateReport from its fetch settling to the end of finally.
PanelReportSettled(i, outcome) ==
  /\ phase = "ready"
  /\ i \in OutstandingFrom("report", "panel")
  /\ requests' = Settle(i, outcome)
  /\ chatHistory' = chatHistory \o PanelReportSettledMessages(outcome, now)
  /\ isGeneratingReport' = IF requests[i].live THEN FALSE ELSE isGeneratingReport
  /\ localHistory' = PersistHistory(chatHistory')
  /\ UNCHANGED <<phase, csvData, activeTab, pageIsGeneratingReport, inputMessage,
                 isLoading, localCsv, queued, now, ops, sinceReset,
                 apiVars>>

\* The page's handleGenerateReport from its fetch settling to the end of finally.
PageReportSettled(i, outcome) ==
  /\ phase = "ready"
  /\ i \in OutstandingFrom("report", "page")
  /\ requests' = Settle(i, outcome)
  /\ chatHistory' = chatHistory \o PageReportSettledMessages(outcome, now)
  /\ activeTab' = IF Failed(outcome) THEN activeTab ELSE "chat"
  /\ pageIsGeneratingReport' = FALSE
  /\ localHistory' = PersistHistory(chatHistory')
  /\ UNCHANGED <<phase, csvData, isGeneratingReport, inputMessage, isLoading,
                 localCsv, queued, now, ops, sinceReset,
                 apiVars>>

----------------------------------------------------------------------------
(* The session: one browser tab, first visit with an empty localStorage *)

ApiIdle ==
  /\ apiPc = "idle"
  /\ apiEndpoint = "none"
  /\ apiReq = [kind |-> "none"]
  /\ apiPrompt = [sent |-> FALSE]
  /\ apiReply = [kind |-> "none"]
  /\ apiResp = [status |-> 0]
  /\ apiCalls = 0

ClientInit ==
  /\ phase = "constructed"
  /\ csvData = Null
  /\ chatHistory = InitialHistory(0)
  /\ activeTab = "dashboard"
  /\ pageIsGeneratingReport = FALSE
  /\ inputMessage = <<>>
  /\ isLoading = FALSE
  /\ isGeneratingReport = FALSE
  /\ localHistory = Absent
  /\ localCsv = Absent
  /\ queued = NoQueue
  /\ requests = <<>>
  /\ now = 0
  /\ ops = 0
  /\ sinceReset = NoneSince

Init == ClientInit /\ ApiIdle

Next ==
  \/ MountEffects
  \/ MountRender
  \/ Reload
  \/ Tick
  \/ \E data \in Datasets : handleFileUpload(data)
  \/ handleClearChat
  \/ \E tab \in {"dashboard", "chat"} : setActiveTab(tab)
  \/ \E text \in InputTexts : setInputMessage(text)
  \/ handleSendMessage
  \/ \E i \in 1..Len(requests), outcome \in ChatResponses : ChatSettled(i, outcome)
  \/ PanelGenerateReport
  \/ PageGenerateReport
  \/ \E i \in 1..Len(requests) :
       \E outcome \in ReportResponses(requests[i].body.csvData) :
         PanelReportSettled(i, outcome)
  \/ \E i \in 1..Len(requests) :
       \E outcome \in ReportResponses(requests[i].body.csvData) :
         PageReportSettled(i, outcome)

Spec == Init /\ [][Next]_vars

----------------------------------------------------------------------------
(* The API routes, one request at a time, for every request body and every  *)
(* answer of the model service                                              *)

MaxHistory == 12
MaxReports == 2
MaxOdd == 2

SectionOrder == <<"dataset_summary", "churn_analysis", "financial_projections",
                  "demand_forecasting", "scenario_analysis", "recommendations">>

\* How a section can be written in the model's JSON: left out, a clean truthy
\* value, null, "", or a string holding a word, an event-handler pattern,
\* javascript:, an opening or a closing script tag.
OddKinds == {"absent", "NUL", "EMPTY", "S_W", "S_ON", "S_JS", "S_SO", "S_SC"}

ValueText(kind) ==
  CASE kind = "VAL" -> <<"VAL">>
    [] kind = "NUL" -> <<"NUL">>
    [] kind = "EMPTY" -> <<"Q", "Q">>
    [] kind = "S_W" -> <<"Q", "W", "Q">>
    [] kind = "S_ON" -> <<"Q", "ON", "EQ", "W", "Q">>
    [] kind = "S_JS" -> <<"Q", "JS", "W", "Q">>
    [] kind = "S_SO" -> <<"Q", "SO", "W", "Q">>
    [] kind = "S_SC" -> <<"Q", "W", "SC", "Q">>

RECURSIVE MembersText(_, _, _)
MembersText(kinds, i, first) ==
  IF i > Len(SectionOrder) THEN <<>>
  ELSE IF kinds[SectionOrder[i]] = "absent" THEN MembersText(kinds, i + 1, first)
  ELSE (IF first THEN <<>> ELSE <<",">>)
         \o <<"K_" \o SectionOrder[i]>> \o ValueText(kinds[SectionOrder[i]])
         \o MembersText(kinds, i + 1, FALSE)

ObjectText(kinds) == <<"{">> \o MembersText(kinds, 1, TRUE) \o <<"}">>

SectionKinds ==
  UNION { { [s \in Sections |-> IF s \in odd THEN k[s] ELSE "VAL"] :
              k \in [odd -> OddKinds] } :
          odd \in {x \in SUBSET Sections : Cardinality(x) <= MaxOdd} }

ReplyBodies ==
  {ObjectText(kinds) : kinds \in SectionKinds}
    \cup { <<>>, <<"W">>, <<"{">>, <<"}", "W", "{">>, <<"{", "W", "}">>,
           <<"{", "K_other", "VAL", "}">>,
           <<"{", "K_recommendations", "VAL", ",", "}">> }

Wrap(kind, body) ==
  CASE kind = "bare" -> body
    [] kind = "fenced" -> <<"FENCE", "WS">> \o body \o <<"WS", "FENCE">>
    [] kind = "prose" -> <<"W", "WS">> \o body \o <<"WS", "W">>

ReportReplyTexts == {Wrap(w, b) : w \in {"bare", "fenced", "prose"}, b \in ReplyBodies}

ChatReplyTexts ==
  { <<>>, <<"W">>, <<"WS", "W", "WS">>, <<"W", "SO", "W", "SC", "W">>,
    <<"JS", "W">>, <<"ON", "WS", "EQ", "W">> }

UpstreamStatuses == {429, 401, 403, 500, 503}

Reply(kind, status, hasText, text) ==
  [kind |-> kind, status |-> status, hasText |-> hasText, text |-> text]

FailedReplies ==
  {Reply("throw", 0, FALSE, <<>>), Reply("badbody", 200, FALSE, <<>>)}
    \cup {Reply("status", st, FALSE, <<>>) : st \in UpstreamStatuses}

ChatRouteReplies ==
  FailedReplies \cup {Reply("ok", 200, FALSE, <<>>)}
    \cup {Reply("ok", 200, TRUE, t) : t \in ChatReplyTexts}

ReportRouteReplies ==
  FailedReplies \cup {Reply("ok", 200, FALSE, <<>>)}
    \cup {Reply("ok", 200, TRUE, t) : t \in ReportReplyTexts}

\* A chatHistory of n entries: user and bot in turn, report entries at `reports`.
HistoryOf(n, reports, first) ==
  [i \in 1..n |->
     [type |-> IF i \in reports THEN "report"
               ELSE IF (i % 2 = 1) = (first = "user") THEN "user" ELSE "bot",
      message |-> <<"m" \o ToString(i)>>]]

ChatHistories ==
  UNION { { HistoryOf(n, r, f) :
              r \in {x \in SUBSET (1..n) : Cardinality(x) <= MaxReports},
              f \in {"user", "bot"} } :
          n \in 0..MaxHistory }

ChatBody(hasMessage, message, data, hasHistory, history) ==
  [kind |-> "json", hasMessage |-> hasMessage, message |-> message, csvData |-> data,
   hasHistory |-> hasHistory, chatHistory |-> history]

ChatBodies ==
  {[kind |-> "unparseable"]}
    \cup {ChatBody(TRUE, <<"W">>, CHOOSE d \in Datasets : d.rowCount > Len(d.sample),
                   TRUE, h) : h \in ChatHistories}
    \cup {ChatBody(TRUE, m, d, TRUE, HistoryOf(2, {}, "bot")) :
            m \in {<<>>, <<"WS">>, <<"WS", "W">>},
            d \in Datasets \cup {Null, BadDescriptor}}
    \cup {ChatBody(FALSE, <<>>, Null, TRUE, <<>>), ChatBody(TRUE, <<"W">>, Null, FALSE, <<>>)}

ReportBodies ==
  {[kind |-> "unparseable"]}
    \cup {[kind |-> "json"]}
    \cup {[kind |-> "json", csvData |-> d] : d \in Datasets \cup {Null, BadDescriptor}}

\* POST /api/chat from the request to its fetch, or to its early response.
ChatReceive(body) ==
  /\ apiPc = "idle"
  /\ apiEndpoint' = "chat"
  /\ apiReq' = body
  /\ apiReply' = [kind |-> "none"]
  /\ IF ChatBeforeFetch(body).status = 0
       THEN /\ apiPc' = "fetching"
            /\ apiPrompt' = ChatPrompt(body)
            /\ apiCalls' = 1
            /\ apiResp' = [status |-> 0]
       ELSE /\ apiPc' = "done"
            /\ apiPrompt' = [sent |-> FALSE]
            /\ apiCalls' = 0
            /\ apiResp' = ChatBeforeFetch(body)
  /\ UNCHANGED clientVars

\* A variant of ChatRespond that calls the model service again after a failure.
ChatRespond_Retry(reply) ==
  /\ apiPc = "fetching"
  /\ apiEndpoint = "chat"
  /\ apiReply' = reply
  /\ IF reply.kind \in {"throw", "status"} /\ apiCalls < 2
       THEN /\ apiCalls' = apiCalls + 1
            /\ UNCHANGED <<apiPc, apiResp>>
       ELSE /\ apiResp' = ChatAfterFetch(reply)
            /\ apiPc' = "done"
            /\ UNCHANGED apiCalls
  /\ UNCHANGED <<apiEndpoint, apiReq, apiPrompt, clientVars>>

\* POST /api/chat from the settling of its fetch to its response.
ChatRespond(reply) ==
  /\ apiPc = "fetching"
  /\ apiEndpoint = "chat"
  /\ apiReply' = reply
  /\ apiResp' = ChatAfterFetch(reply)
  /\ apiPc' = "done"
  /\ UNCHANGED <<apiEndpoint, apiReq, apiPrompt, apiCalls, clientVars>>

\* POST /api/generate-report from the request to its fetch, or to its early response.
ReportReceive(body) ==
  /\ apiPc = "idle"
  /\ apiEndpoint' = "report"
  /\ apiReq' = body
  /\ apiReply' = [kind |-> "none"]
  /\ IF ReportBeforeFetch(body).status = 0
       THEN /\ apiPc' = "fetching"
            /\ apiPrompt' = ReportPrompt(body)
            /\ apiCalls' = 1
            /\ apiResp' = [status |-> 0]
       ELSE /\ apiPc' = "done"
            /\ apiPrompt' = [sent |-> FALSE]
            /\ apiCalls' = 0
            /\ apiResp' = ReportBeforeFetch(body)
  /\ UNCHANGED clientVars

\* POST /api/generate-report from the settling of its fetch to its response.
ReportRespond(reply) ==
  /\ apiPc = "fetching"
  /\ apiEndpoint = "report"
  /\ apiReply' = reply
  /\ apiResp' = ReportAfterFetch(reply, apiReq.csvData)
  /\ apiPc' = "done"
  /\ UNCHANGED <<apiEndpoint, apiReq, apiPrompt, apiCalls, clientVars>>

\* The response is sent; the route waits for the next request.
ApiDone ==
  /\ apiPc = "done"
  /\ apiPc' = "idle"
  /\ apiEndpoint' = "none"
  /\ apiReq' = [kind |-> "none"]
  /\ apiPrompt' = [sent |-> FALSE]
  /\ apiReply' = [kind |-> "none"]
  /\ apiResp' = [status |-> 0]
  /\ apiCalls' = 0
  /\ UNCHANGED clientVars

ApiNext ==
  \/ apiPc = "idle" /\ \E body \in ChatBodies : ChatReceive(body)
  \/ apiPc = "fetching" /\ apiEndpoint = "chat"
       /\ \E reply \in ChatRouteReplies : ChatRespond(reply)
  \/ apiPc = "idle" /\ \E body \in ReportBodies : ReportReceive(body)
  \/ apiPc = "fetching" /\ apiEndpoint = "report"
       /\ \E reply \in ReportRouteReplies : ReportRespond(reply)
  \/ ApiDone

ApiSpec == Init /\ [][ApiNext]_vars

----------------------------------------------------------------------------
(* Claims about the API routes, checked under ApiSpec *)

ReplyText == IF apiReply.hasText THEN apiReply.text ELSE <<>>

ReportAnswered ==
  apiPc = "done" /\ apiEndpoint = "report" /\ apiReply.kind = "ok"

\* A text that is not JSON: it holds no brace-delimited stretch, or the stretch
\* does not parse.
NotJson(t) == ~JsonMatch(t).found \/ ~JsonParse(JsonMatch(t).text).ok

\* C1: whenever the model answers a report call with success status and a text
\* that is malformed or not JSON (empty and absent included), the route
\* responds 200 with the complete fallback report.
C1_MalformedGivesFallback ==
  (ReportAnswered /\ NotJson(ReplyText))
    => (apiResp.status = 200 /\ apiResp.report = fallbackReport(apiReq.csvData))

\* C3: whenever the chatHistory of a chat request holds more than 10 user/bot
\* entries, the history block of the prompt is exactly the last 10 of them, in
\* order, labelled User / Assistant, whatever report entries lie among them.
C3_LastTenEligible ==
  (apiEndpoint = "chat" /\ apiPrompt.sent
     /\ Len(FilterEligible(apiReq.chatHistory)) > HistoryLimit)
    => LET lastTen == SliceLast(FilterEligible(apiReq.chatHistory), HistoryLimit)
       IN apiPrompt.history = [i \in 1..HistoryLimit |-> HistoryLine(lastTen[i])]

ExtractedReport == JsonParse(JsonMatch(sanitizeOutput(ReplyText)).text)

\* C6: every report returned with status 200 has all six sections and is either
\* the object the route parsed from the model text, whole, or the fallback
\* report, whole; never a mixture.
C6_ReportAllOrNothing ==
  (apiPc = "done" /\ apiEndpoint = "report" /\ apiResp.status = 200)
    => /\ Sections \subseteq DOMAIN apiResp.report
       /\ \/ apiResp.report = fallbackReport(apiReq.csvData)
          \/ /\ ExtractedReport.ok
             /\ apiResp.report = ExtractedReport.obj
             /\ \A s \in DOMAIN apiResp.report : apiResp.report[s].kind # "FALLBACK"

\* C6 witness: the model's JSON parsed but lacked a section, and the whole
\* fallback report was returned in its place.
C6_Witness ==
  /\ ReportAnswered /\ apiResp.status = 200
  /\ ExtractedReport.ok /\ ExtractedReport.obj # <<>>
  /\ ~HasRequiredSections(ExtractedReport.obj)
  /\ apiResp.report = fallbackReport(apiReq.csvData)

\* What stands between the opening and the closing fence of a fenced text.
Fenced(t) == Trim(SubSeq(t, 2, Len(t) - 1))

RawReport == JsonParse(Fenced(ReplyText))

\* The model's text is a code-fenced JSON object that is a complete report.
FencedCompleteReport ==
  /\ ReportAnswered
  /\ Len(ReplyText) >= 2 /\ Head(ReplyText) = "FENCE"
  /\ ReplyText[Len(ReplyText)] = "FENCE"
  /\ RawReport.ok /\ HasRequiredSections(RawReport.obj)

\* The text holds something the denylist filter removes.
Denylisted(t) ==
  \/ \E i \in 1..Len(t) : t[i] = "JS"
  \/ \E i \in 1..(Len(t) - 1) : t[i] = "JA" /\ t[i + 1] = "SCR"
  \/ \E i \in 1..Len(t) : \E j \in (i + 1)..Len(t) :
       (t[i] = "SO" /\ t[j] = "SC") \/ (t[i] = "IO" /\ t[j] = "IC")
  \/ \E i \in 1..Len(t) : HandlerMatchLen(SubSeq(t, i, Len(t))) # 0

\* C9 as stated: a code-fenced complete report is returned exactly as parsed
\* from the model's JSON, unchanged by the sanitizing step.
C9_FencedReportUnchanged ==
  FencedCompleteReport => (apiResp.status = 200 /\ apiResp.report = RawReport.obj)

\* C9 amended: a code-fenced complete report that holds nothing the denylist
\* filter removes is returned exactly as parsed from the model's JSON, and not
\* as the fallback report.
C9_CleanFencedReportReturned ==
  (FencedCompleteReport /\ ~Denylisted(ReplyText))
    => (apiResp.status = 200 /\ apiResp.report = RawReport.obj
          /\ apiResp.report # fallbackReport(apiReq.csvData))

C9_Witness ==
  /\ FencedCompleteReport /\ ~Denylisted(ReplyText)
  /\ \E s \in Sections : RawReport.obj[s].kind = "STR"
  /\ apiResp.status = 200

ErrorKind(status) ==
  IF status = 429 THEN "rate-limited"
  ELSE IF status \in {401, 403} THEN "auth" ELSE "generic"

UpstreamError(endpoint, status) ==
  IF endpoint = "chat" THEN ChatUpstreamError(status) ELSE ReportUpstreamError(status)

\* C10: on both routes the error response to a non-success status of the model
\* service differs from the response the route gives to a status of either
\* other kind (rate-limited, auth/config, generic).
C10_ThreeKindsDistinct ==
  (apiPc = "done" /\ apiReply.kind = "status")
    => \A st \in UpstreamStatuses :
         ErrorKind(st) # ErrorKind(apiReply.status)
           => UpstreamError(apiEndpoint, st) # apiResp

----------------------------------------------------------------------------
(* Claims about the session, checked under Spec *)

\* C2: at most one chat request and at most one report request is outstanding.
C2_OneOutstandingPerIntent ==
  /\ Cardinality(Outstanding("chat")) <= 1
  /\ Cardinality(Outstanding("report")) <= 1

CanSend == PanelMounted /\ SendReachable /\ SendGuard
CanStartPanelReport == PanelMounted /\ PanelReportButtonEnabled /\ PanelReportGuard
CanStartPageReport == PageReportButtonEnabled /\ PageReportGuard

LiveFrom(intent) ==
  {i \in OutstandingFrom(intent, "panel") : requests[i].live}

C5_FailedAppendsBotMessage ==
  [][\A i \in 1..Len(requests) :
       (i <= Len(requests') /\ requests'[i].status # requests[i].status)
         => /\ requests[i].status = "sending"
            /\ requests'[i].status \in {"succeeded", "failed"}
            /\ requests'[i].status = "failed"
                 => /\ Len(chatHistory') = Len(chatHistory) + 1
                    /\ SubSeq(chatHistory', 1, Len(chatHistory)) = chatHistory
                    /\ chatHistory'[Len(chatHistory')].type = "bot"]_vars

\* C5 witness: a chat request and a report request have both failed.
C5_Witness ==
  /\ \E i \in 1..Len(requests) :
       requests[i].intent = "chat" /\ requests[i].status = "failed"
  /\ \E i \in 1..Len(requests) :
       requests[i].intent = "report" /\ requests[i].status = "failed"
  /\ chatHistory[Len(chatHistory)].type = "bot"

WithoutTime(h) == [i \in 1..Len(h) |-> [type |-> h[i].type, message |-> h[i].message]]

\* C7: from every conversation, clear gives a conversation of length 1 whose
\* only entry is the bot greeting, and clearing again gives the same
\* conversation up to the timestamp.
C7_ClearYieldsGreeting ==
  LET once == ClearedHistory(chatHistory, now)
      twice == ClearedHistory(once, now + TickMs)
  IN /\ Len(once) = 1
     /\ once[1].type = "bot" /\ once[1].message = Greeting
     /\ WithoutTime(twice) = WithoutTime(once)

\* C7 witness: clear has acted on a conversation that held a request's messages.
C7_Witness ==
  /\ phase = "ready" /\ requests # <<>>
  /\ chatHistory = ClearedHistory(chatHistory, chatHistory[1].timestamp)
  /\ localHistory = PersistHistory(chatHistory)

\* C8: writing a conversation to the store and loading it at the next session
\* start gives the same number of messages, and at each position the same
\* type, text, report payload and timestamp instant.
C8_RoundTrip ==
  LET loaded == LoadEffect(PersistHistory(chatHistory), localCsv).history
  IN /\ loaded.present
     /\ Len(loaded.value) = Len(chatHistory)
     /\ \A i \in 1..Len(chatHistory) :
          /\ loaded.value[i].type = chatHistory[i].type
          /\ loaded.value[i].message = chatHistory[i].message
          /\ loaded.value[i].timestamp = chatHistory[i].timestamp
          /\ ("report" \in DOMAIN loaded.value[i]) = ("report" \in DOMAIN chatHistory[i])
          /\ "report" \in DOMAIN chatHistory[i]
               => loaded.value[i].report = chatHistory[i].report

\* C8 witness: a session that started from a stored conversation holding a
\* report message written after the clock had advanced.
C8_Witness ==
  /\ phase = "ready" /\ requests = <<>>
  /\ \E i \in 1..Len(chatHistory) :
       chatHistory[i].type = "report" /\ chatHistory[i].timestamp > 0

----------------------------------------------------------------------------
(* Further claims about the API routes, checked under ApiSpec *)

ChatStatusAnswered ==
  apiPc = "done" /\ apiEndpoint = "chat" /\ apiReply.kind = "status"

\* C11: when the model service answers a chat call with 429 the route responds
\* 429 with the quota text; with 401 or 403 it responds 500 with the
\* configuration-error text; with any other non-success status it responds
\* 500 with the generic failure text.
C11_ChatStatusMapping ==
  ChatStatusAnswered =>
    /\ DOMAIN apiResp = {"status", "error"}
    /\ apiReply.status = 429
         => /\ apiResp.status = 429
            /\ apiResp.error = "AI service quota exceeded. Please try again later."
    /\ apiReply.status \in {401, 403}
         => /\ apiResp.status = 500
            /\ apiResp.error = "AI service configuration error. Please check API key."
    /\ apiReply.status \notin {429, 401, 403}
         => /\ apiResp.status = 500
            /\ apiResp.error = "Failed to get response from AI service."

\* C11 witness: the model service answered a chat call with 403.
C11_Witness ==
  /\ ChatStatusAnswered /\ apiReply.status = 403
  /\ apiResp.status = 500 /\ apiCalls = 1

----------------------------------------------------------------------------
(* The routes and the session side by side: the routes are exercised while  *)
(* the page is not yet in use, the session while the routes are idle        *)

CallNext ==
  \/ apiPc = "idle" /\ apiEndpoint = "none" /\ Next
  \/ phase = "constructed" /\ ops = 0 /\ now = 0 /\ ~localHistory.present /\ ApiNext

CallSpec == Init /\ [][CallNext]_vars

\* A step in which one of the three in-flight flags is raised by a user action.
StartStep(intent, origin) ==
  /\ ops' = ops + 1
  /\ phase = "ready" /\ phase' = "ready"
  /\ CASE intent = "chat" -> ~isLoading /\ isLoading'
       [] origin = "panel" -> ~isGeneratingReport /\ isGeneratingReport'
       [] OTHER -> ~pageIsGeneratingReport /\ pageIsGeneratingReport'

\* What a step does to the log of the calls made to the endpoints.
OneCallPerStart ==
  /\ \A intent \in {"chat", "report"}, origin \in {"panel", "page"} :
       StartStep(intent, origin)
         => (/\ requests' = Append(requests, requests'[Len(requests')])
             /\ requests'[Len(requests')].intent = intent
             /\ requests'[Len(requests')].status = "sending")
  /\ (Len(requests') > Len(requests))
       => (\E int \in {"chat", "report"}, org \in {"panel", "page"} :
             StartStep(int, org))

\* C12: a route invocation never calls the model service more than once, and
\* has called it once when it answers after the call failed or succeeded;
\* every user action that starts a request adds exactly one call to the
\* endpoint of its intent, and nothing else adds a call.
C12_SingleAttempt ==
  /\ [](apiCalls <= 1 /\ (apiReply.kind # "none" => apiCalls = 1))
  /\ [][OneCallPerStart]_vars

\* C12 witness: a route has answered after its one call to the model service
\* failed.
C12_Witness ==
  /\ apiPc = "done" /\ apiReply.kind \in {"throw", "status"}
  /\ apiCalls = 1 /\ apiResp.status >= 400

\* A chat request whose message is absent, empty or white space only.
NoMessage ==
  /\ apiEndpoint = "chat" /\ apiReq.kind = "json"
  /\ ~apiReq.hasMessage \/ \A i \in 1..Len(apiReq.message) : apiReq.message[i] = "WS"

\* C13: a chat request whose message is absent, empty or white space only is
\* answered 400 with an error field, and no call to the model service is made.
C13_NoMessageIs400 ==
  NoMessage =>
    /\ apiPc = "done"
    /\ apiResp.status = 400 /\ "error" \in DOMAIN apiResp
    /\ apiCalls = 0 /\ ~apiPrompt.sent /\ apiReply.kind = "none"

\* C13 witness: a message of white space only was answered.
C13_Witness ==
  /\ NoMessage /\ apiReq.hasMessage /\ apiReq.message # <<>>
  /\ apiPc = "done" /\ apiResp.status = 400

\* A report request whose csvData is missing or null.
NoCsvData ==
  /\ apiEndpoint = "report" /\ apiReq.kind = "json"
  /\ "csvData" \notin DOMAIN apiReq \/ apiReq.csvData = Null

\* C14: a report request whose csvData is missing or null is answered 400 with
\* an error field, and no call to the model service is made.
C14_NoCsvDataIs400 ==
  NoCsvData =>
    /\ apiPc = "done"
    /\ apiResp.status = 400 /\ "error" \in DOMAIN apiResp
    /\ apiCalls = 0 /\ ~apiPrompt.sent /\ apiReply.kind = "none"

\* C14 witness: a request without a csvData field was answered.
C14_Witness ==
  /\ NoCsvData /\ "csvData" \notin DOMAIN apiReq
  /\ apiPc = "done" /\ apiResp.status = 400

\* The model service answered a chat call with success and no text.
ChatAnsweredWithoutText ==
  /\ apiPc = "done" /\ apiEndpoint = "chat" /\ apiReply.kind = "ok"
  /\ ~apiReply.hasText \/ apiReply.text = <<>>

\* C15: when the model service answers a chat call with success but without a
\* text (absent or empty), the route responds 200 with the fixed sentinel as
\* its response.
C15_NoTextGivesSentinel ==
  ChatAnsweredWithoutText
    => (/\ apiResp.status = 200
        /\ DOMAIN apiResp = {"status", "response"}
        /\ apiResp.response = <<"SORRY_NO_RESPONSE">>)

\* C15 witness: the text was there but empty.
C15_Witness ==
  /\ ChatAnsweredWithoutText /\ apiReply.hasText
  /\ apiResp.status = 200 /\ apiResp.response # <<>>

\* C16: whatever the request body and whatever the outcome of the model call,
\* a route that has finished has a response whose status is 200, 400, 429 or
\* 500 and whose body is the success payload (with 200) or an object with an
\* error field (otherwise); a route that is not finished is waiting for its
\* one model call.
C16_EveryInvocationAnswered ==
  /\ apiPc \in {"idle", "fetching", "done"}
  /\ apiPc = "fetching" => (apiCalls = 1 /\ apiPrompt.sent)
  /\ apiPc = "done" =>
       /\ apiResp.status \in {200, 400, 429, 500}
       /\ apiResp.status = 200
            => DOMAIN apiResp
                 = {"status", IF apiEndpoint = "chat" THEN "response" ELSE "report"}
       /\ apiResp.status # 200 => DOMAIN apiResp = {"status", "error"}

\* C16 witness: the model service answered success with a body that is not
\* JSON, and the report route answered 500.
C16_Witness ==
  /\ apiPc = "done" /\ apiEndpoint = "report" /\ apiReply.kind = "badbody"
  /\ apiResp.status = 500 /\ "error" \in DOMAIN apiResp

\* A prompt was sent for a dataset with more rows than sample rows.
SampledDatasetSent ==
  /\ apiPc # "idle" /\ apiPrompt.sent
  /\ apiReq.csvData # Null
  /\ apiReq.csvData.rowCount > Len(apiReq.csvData.sample)

\* C20: for a dataset with more rows than sample rows the context block of the
\* prompt, on both routes, states that the analysis covers the sample rows out
\* of the total, and gives the file name, the total row count, the column
\* count and the column names in schema order.
C20_ContextStatesSampling ==
  SampledDatasetSent =>
    LET d == apiReq.csvData
        c == apiPrompt.context
    IN /\ c.kind = "dataset"
       /\ c.scope = [sampled |-> Len(d.sample), total |-> d.rowCount]
       /\ c.fileName = d.fileName
       /\ c.totalRecords = d.rowCount
       /\ c.fieldCount = Len(d.schema)
       /\ c.fields = d.schema

\* C20 witness: the report route sent the prompt for a sampled dataset.
C20_Witness ==
  /\ SampledDatasetSent /\ apiEndpoint = "report" /\ apiPc = "fetching"
  /\ Len(apiReq.csvData.schema) > 1

----------------------------------------------------------------------------
(* Further claims about the session, checked under Spec *)

IsPrefix(s, t) == Len(s) <= Len(t) /\ SubSeq(t, 1, Len(s)) = s

\* The steps that replace the conversation: clear, the load at session start
\* and the construction of the page.
ReplacingStep ==
  \/ handleClearChat
  \/ phase = "effects"
  \/ phase' = "constructed"

\* C17: every step other than clear and the load at session start leaves the
\* messages of the conversation, report payloads included, unchanged and in
\* place, and at most adds messages at the end.
C17_AppendOnly ==
  [][~ReplacingStep => IsPrefix(chatHistory, chatHistory')]_vars

\* C17 witness: a report message is followed by a later user message.
C17_Witness ==
  /\ phase = "ready"
  /\ \E i \in 1..Len(chatHistory) : \E j \in (i + 1)..Len(chatHistory) :
       /\ chatHistory[i].type = "report"
       /\ Sections \subseteq DOMAIN chatHistory[i].report
       /\ chatHistory[j].type = "user"

\* C18: the timestamps of the conversation are non-decreasing from the first
\* message to the last.
C18_Chronological ==
  \A i \in 1..Len(chatHistory) : \A j \in i..Len(chatHistory) :
    chatHistory[i].timestamp <= chatHistory[j].timestamp

\* C18 witness: a response arrived after the clock had advanced past the time
\* of its request.
C18_Witness ==
  /\ phase = "ready" /\ Len(chatHistory) >= 3
  /\ \E i \in 1..Len(requests) : requests[i].status # "sending"
  /\ chatHistory[Len(chatHistory) - 1].type = "user"
  /\ chatHistory[Len(chatHistory) - 1].timestamp < chatHistory[Len(chatHistory)].timestamp

\* C19: within a page load no step (clear and upload included) takes a request
\* in flight away, and the step in which a request in flight resolves appends
\* its outcome to the conversation as it then is.
C19_NeverCancelled ==
  [][(phase = "ready" /\ phase' = "ready")
       => \A i \in 1..Len(requests) :
            requests[i].status = "sending"
              => /\ i <= Len(requests')
                 /\ requests'[i].body = requests[i].body
                 /\ \/ requests'[i].status = "sending"
                    \/ /\ IsPrefix(chatHistory, chatHistory')
                       /\ Len(chatHistory') > Len(chatHistory)]_vars

\* C19 witness: clear happened while a chat request was in flight, and the
\* outcome of the request now stands right after the greeting.
C19_Witness ==
  /\ phase = "ready" /\ Len(chatHistory) = 2
  /\ chatHistory[1].message = Greeting
  /\ chatHistory[2].type = "bot" /\ chatHistory[2].message[1] # "ACK"
  /\ \E i \in 1..Len(requests) :
       requests[i].intent = "chat" /\ requests[i].status # "sending"

----------------------------------------------------------------------------
(* Claims about the prompt without a dataset, checked under ApiSpec *)

\* A chat request of the ChatRequest shape with a message that is not blank
\* and csvData null.
ChatWithoutDataset ==
  /\ apiEndpoint = "chat" /\ apiReq.kind = "json"
  /\ apiReq.hasMessage /\ Trim(apiReq.message) # <<>>
  /\ apiReq.hasHistory
  /\ apiReq.csvData = Null

----------------------------------------------------------------------------
(* Claims about the persistence store, checked under Spec *)

\* C22: once the effects of a render have run (after every append, clear and
\* load) the store holds the conversation that is in memory: the entry is
\* present, it is the serialization of the in-memory conversation, and parsing
\* it gives the in-memory conversation back; after a clear that is the
\* conversation of the one greeting.
C22_StoreFollowsConversation ==
  phase # "constructed" =>
    /\ localHistory.present
    /\ localHistory = PersistHistory(chatHistory)
    /\ ParseHistory(localHistory.value) = chatHistory

\* C22 witness: a clear made after the clock advanced, on a conversation that
\* held more than the greeting; the store holds the new greeting alone.
C22_Witness ==
  /\ phase = "ready" /\ ops > 0 /\ now > 0
  /\ Len(chatHistory) = 1 /\ chatHistory[1].timestamp = now
  /\ localHistory.present /\ Len(localHistory.value) = 1
  /\ localHistory.value[1].message = Greeting

\* What a step does to the dataset descriptor, in memory and in the store.
DescriptorFrame ==
  /\ (csvData' # csvData /\ phase = "ready" /\ phase' = "ready")
       => (/\ csvData' \in Datasets
           /\ localCsv' = Stored(csvData')
           /\ chatHistory' = Append(chatHistory, BotMessage(UploadAck(csvData'), now)))
  /\ (csvData' # csvData /\ phase = "effects")
       => (localCsv.present /\ csvData' = localCsv.value)
  /\ (csvData' # csvData) => (phase = "effects" \/ phase' = "constructed" \/ ops' = ops + 1)
  /\ (\E data \in Datasets : handleFileUpload(data))
       => (/\ Len(chatHistory') = Len(chatHistory) + 1
           /\ IsPrefix(chatHistory, chatHistory')
           /\ chatHistory'[Len(chatHistory')].type = "bot"
           /\ csvData' \in Datasets /\ localCsv' = Stored(csvData'))
  /\ (localCsv' # localCsv)
       => (csvData' # csvData /\ phase = "ready" /\ localCsv' = Stored(csvData'))
  /\ (csvData # Null /\ phase' # "constructed") => csvData' # Null
  /\ localCsv.present => localCsv'.present

\* C23: the dataset descriptor changes only by an upload, which replaces it
\* whole, writes it to the store and appends exactly one bot message, or by
\* the load at session start, which takes it from the store; every other step
\* (send, report, responses, clear, tab change) leaves the descriptor in memory
\* and in the store as they are; once set it is never absent again in the
\* session, and the store never loses it.
C23_DescriptorChangesByUploadOnly ==
  [][DescriptorFrame]_vars

\* C23 witness: a second upload replaced the descriptor of the first.
C23_Witness ==
  /\ phase = "ready" /\ csvData # Null /\ localCsv = Stored(csvData)
  /\ \E i \in 1..Len(chatHistory) : \E j \in (i + 1)..Len(chatHistory) :
       /\ Head(chatHistory[i].message) = "ACK"
       /\ chatHistory[i].message # UploadAck(csvData)
       /\ chatHistory[j].message = UploadAck(csvData)

----------------------------------------------------------------------------
(* Claims about the chat requests of the session, checked under Spec *)

\* The step in which chat request i resolves.
Resolves(i) ==
  /\ requests[i].intent = "chat" /\ requests[i].status = "sending"
  /\ i <= Len(requests') /\ requests'[i].status # "sending"

\* A resolving chat request appends one bot message: the sanitized reply or the
\* fixed apology; the flag of the panel that started it is then false.
OneReplyPerChat ==
  \A i \in 1..Len(requests) :
    Resolves(i)
      => (/\ Len(chatHistory') = Len(chatHistory) + 1
          /\ IsPrefix(chatHistory, chatHistory')
          /\ chatHistory'[Len(chatHistory')].type = "bot"
          /\ IF requests'[i].status = "failed"
               THEN chatHistory'[Len(chatHistory')].message = ChatErrorText
               ELSE chatHistory'[Len(chatHistory')].message
                      \in {sanitizeMessage(r) : r \in ChatReplies}
          /\ requests[i].live => ~isLoading')

\* C24 as stated: once no chat request is outstanding, the bot messages
\* appended for chat requests are as many as the user messages appended since
\* the last clear or load.
C24_RepliesMatchQuestions ==
  Outstanding("chat") = {} => sinceReset.chatBot = sinceReset.user

\* C24 amended: every chat request resolves by one appended bot message (the
\* sanitized reply, or the fixed apology) and the flag of the panel that
\* started it is then false; the bot messages appended for chat requests
\* since the last clear or load, together with the chat requests still
\* outstanding, are as many as the user messages appended since then plus the
\* chat requests that were in flight at that clear.
C24_RepliesMatchQuestionsAndCarried ==
  /\ [](sinceReset.chatBot + Cardinality(Outstanding("chat"))
          = sinceReset.user + sinceReset.carried)
  /\ [][OneReplyPerChat]_vars

\* C24 witness: a chat request was in flight at a clear and has failed since;
\* its apology is the only message after the greeting.
C24_Witness ==
  /\ phase = "ready" /\ Outstanding("chat") = {}
  /\ sinceReset = [user |-> 0, chatBot |-> 1, carried |-> 1]
  /\ Len(chatHistory) = 2 /\ chatHistory[2].message = ChatErrorText

\* What the step that starts a chat request puts in the body, and the prompt
\* that the route builds from that body.
SendsEarlierConversation ==
  (Len(requests') = Len(requests) + 1 /\ requests'[Len(requests')].intent = "chat")
    => LET body == requests'[Len(requests')].body
           prompt == ChatPrompt(body)
       IN /\ body.chatHistory = chatHistory
          /\ chatHistory' = Append(chatHistory, UserMessage(body.message, now))
          /\ Len(body.chatHistory) + 1 = Len(chatHistory')
          /\ prompt.question = body.message
          /\ prompt.history = historyContext(chatHistory)
          /\ Len(prompt.history) = Len(FilterEligible(SliceLast(chatHistory, HistoryLimit)))

\* C25: the chatHistory that a send puts in the request body is the
\* conversation as it was before the user message was appended; in the prompt
\* built from that body the submitted question is the current user question,
\* and the recent-conversation block renders the earlier conversation only.
C25_SendsEarlierConversation ==
  [][SendsEarlierConversation]_vars

\* C25 witness: the same question was sent a second time; the block of the
\* second request holds the first question, and ends with the reply to it.
C25_Witness ==
  \E i \in 1..Len(requests) :
    /\ requests[i].intent = "chat"
    /\ LET body == requests[i].body
           block == ChatPrompt(body).history
       IN /\ \E j \in 1..Len(body.chatHistory) :
               /\ body.chatHistory[j].type = "user"
               /\ body.chatHistory[j].message = body.message
          /\ block # <<>> /\ block[Len(block)].label = "Assistant"

----------------------------------------------------------------------------
(* Claims about the flags and the session start, checked under Spec *)

\* C26: each in-flight flag is true exactly when a request it guards is
\* outstanding: isLoading of the panel with a chat call, isGeneratingReport of
\* the panel (while the panel is displayed) with a report call started from
\* the panel, isGeneratingReport of the page with a report call started from
\* the sidebar.
C26_FlagsTrackRequests ==
  /\ PanelMounted => isLoading = (OutstandingFrom("chat", "panel") # {})
  /\ PanelMounted => isGeneratingReport = (OutstandingFrom("report", "panel") # {})
  /\ pageIsGeneratingReport = (OutstandingFrom("report", "page") # {})

\* The effects of the first render read the saved conversation before the
\* greeting is written over it, and what they read serializes to what was saved.
LoadReadsSaved ==
  (phase = "constructed" /\ phase' = "effects" /\ localHistory.present)
    => (/\ queued'.history = Stored(ParseHistory(localHistory.value))
        /\ PersistHistory(queued'.history.value) = localHistory
        /\ localHistory' = PersistHistory(InitialHistory(chatHistory[1].timestamp)))

\* The render that follows takes the conversation that was read and writes it
\* to the store.
RenderRestoresSaved ==
  (phase = "effects" /\ phase' = "ready" /\ queued.history.present)
    => (/\ chatHistory' = queued.history.value
        /\ localHistory' = PersistHistory(queued.history.value))

C28_NoChatWithoutDataset ==
  /\ csvData = Null => (~CanSend /\ inputMessage = <<>>)
  /\ \A i \in 1..Len(requests) :
       requests[i].intent = "chat"
         => /\ requests[i].body.csvData \in Datasets
            /\ ChatPrompt(requests[i].body).context.kind = "dataset"

\* C28 witness: a chat call in flight for the dataset of one row.
C28_Witness ==
  /\ phase = "ready" /\ csvData # Null /\ csvData.rowCount = 1
  /\ \E i \in Outstanding("chat") :
       requests[i].body.csvData = csvData /\ requests[i].live

----------------------------------------------------------------------------
(* The denylist filter on every short text: POST /api/chat answering a model *)
(* reply made of the lexemes the filter looks for                            *)

MaxText == 3

FilterLexemes == {"W", "WS", "JA", "JS", "SCR", "ON", "EQ", "SO", "SC"}

FilterTexts == UNION {[1..n -> FilterLexemes] : n \in 0..MaxText}

FilterBodies == {ChatBody(TRUE, <<"W">>, d, TRUE, <<>>) : d \in Datasets}

FilterNext ==
  \/ apiPc = "idle" /\ \E body \in FilterBodies : ChatReceive(body)
  \/ apiPc = "fetching" /\ \E t \in FilterTexts : ChatRespond(Reply("ok", 200, TRUE, t))
  \/ ApiDone

FilterSpec == Init /\ [][FilterNext]_vars

\* The four denylist replacements, as sanitizeMessage makes them on the client.
DenylistPass(t) ==
  StripHandlers(StripJavascript(StripElement(StripElement(t, "SO", "SC"), "IO", "IC")))

ChatReplied == apiPc = "done" /\ apiEndpoint = "chat" /\ apiResp.status = 200

\* C29 as stated: the output of the filter is a fixed point of the filter, it
\* holds no script/iframe element, no javascript: and no event-handler
\* pattern, and the denylist pass of the client changes nothing in it.
C29_SanitizerIdempotent ==
  ChatReplied =>
    /\ sanitizeOutput(apiResp.response) = apiResp.response
    /\ ~Denylisted(apiResp.response)
    /\ DenylistPass(apiResp.response) = apiResp.response

\* C29 amended: a text that holds no denylisted pattern is only trimmed; the
\* output is trimmed; and whenever the output of the filter holds no
\* denylisted pattern, applying the filter again, on the route or on the
\* client, changes nothing. (A removal can bring a new pattern together, and
\* such an output is changed by a second pass.)
C29_StableWhenClean ==
  ChatReplied =>
    /\ (~Denylisted(ReplyText) /\ ReplyText # <<>>) => apiResp.response = Trim(ReplyText)
    /\ Trim(apiResp.response) = apiResp.response
    /\ ~Denylisted(apiResp.response)
         => /\ sanitizeOutput(apiResp.response) = apiResp.response
            /\ DenylistPass(apiResp.response) = apiResp.response

\* C29 witness: the reply held denylisted patterns, the response holds none
\* and is not empty.
C29_Witness ==
  /\ ChatReplied /\ Denylisted(ReplyText)
  /\ ~Denylisted(apiResp.response) /\ apiResp.response # <<>>
  /\ Len(apiResp.response) < Len(ReplyText)

----------------------------------------------------------------------------
(* Claim about the rendering of reports, checked under Spec *)

\* C30: every report payload stored in a report message has every section the
\* report view reads (summary, churnAnalysis, financialProjections,
\* demandForecasting, scenarioAnalysis, recommendations); the view never reads
\* a field of an absent section.
C30_ReportHasViewSections ==
  \A i \in 1..Len(chatHistory) :
    chatHistory[i].type = "report"
      => /\ ViewSections \subseteq DOMAIN chatHistory[i].report
         /\ ~ViewThrows(chatHistory[i].report)

====
